---------------------------- MODULE Spec2Model ----------------------------
(***************************************************************************)
(* A model of yt-transcript-mcp: the sliding-window rate limiter and the   *)
(* cached retrieval path of server.py, and TranscriptCache of cache.py     *)
(* (a cachetools.TTLCache plus hit/miss counters).                         *)
(*                                                                         *)
(* Strings are sequences of one-character strings, so that the cache key   *)
(* f"{video_id}:{language}" is a real concatenation.  Times are integers   *)
(* (seconds).  `now' is time.time(), the wall clock read by the rate       *)
(* limiter, which the operating system may set back; `mono' is             *)
(* time.monotonic(), the default timer of TTLCache.  One read of the clock *)
(* is made per operation.  stats()["hit_rate"] is kept in tenths of a      *)
(* percent (an integer).                                                   *)
(***************************************************************************)
EXTENDS Integers, Sequences, FiniteSets, TLC

VARIABLES
    now,           \* time.time()
    mono,          \* time.monotonic()
    _settings,     \* Settings(): the fields the core reads
    _rate_window,  \* server._rate_window, a deque of admitted timestamps
    ttl_cache,     \* TranscriptCache._cache, the TTLCache
    _hits,         \* TranscriptCache._hits
    _misses,       \* TranscriptCache._misses
    ret,           \* what the last operation returned or raised
    getCalls,      \* history: the number of TranscriptCache.get calls made
    lastSetAt,     \* history: cache key -> time of its most recent set
    task,          \* the tool invocations: where each is, its locals, its output
    calls,         \* history: the number of tool invocations started
    fetches,       \* history: the number of provider.get_transcript calls made
    lifespan,      \* app_lifespan: where it is, whether close() has been run
    _provider      \* server._provider: its mode, its client, its close() calls

vars == <<now, mono, _settings, _rate_window, ttl_cache, _hits, _misses,
          ret, getCalls, lastSetAt, task, calls, fetches, lifespan,
          _provider>>

serverVars == <<task, calls, fetches>>

cacheVars == <<ttl_cache, _hits, _misses, getCalls, lastSetAt>>

(***************************************************************************)
(* Bounds of the model.                                                    *)
(***************************************************************************)
TickStep     == 30   \* the clocks advance in steps of this many seconds
MaxTicks     == 3    \* the clocks stop at MaxTicks * TickStep
MaxLimit     == 2    \* rate_limit_per_minute is drawn from 0..MaxLimit
MaxCacheSize == 2    \* cache_max_size is drawn from 0..MaxCacheSize
CacheTtl     == 60   \* cache_ttl_seconds
MaxGets      == 3    \* at most this many TranscriptCache.get calls
MaxCalls     == 3    \* at most this many tool invocations

MaxTime == MaxTicks * TickStep
Times   == {t \in 0..MaxTime : t % TickStep = 0}

(***************************************************************************)
(* Program constants.                                                      *)
(***************************************************************************)
WindowSeconds == 60
IdLen         == 11

\* Python's None where a str is expected: extract_video_id returns an
\* 11-character (or longer) str or None, never the empty str.
NoStr == <<>>

None == [none |-> TRUE]

Max(a, b) == IF a >= b THEN a ELSE b

(***************************************************************************)
(* server._check_rate_limit                                                *)
(***************************************************************************)
RECURSIVE popleft_stale(_, _)
popleft_stale_never(window, t) == window

popleft_stale(window, t) ==
    IF window # <<>> /\ Head(window) < t - WindowSeconds
    THEN popleft_stale(Tail(window), t)
    ELSE window

_check_rate_limit_off_by_one(window, t, limit) ==
    LET pruned == popleft_stale(window, t)
    IN  IF Len(pruned) > limit
        THEN [window |-> pruned, raised |-> TRUE]
        ELSE [window |-> Append(pruned, t), raised |-> FALSE]

_check_rate_limit_records_twice(window, t, limit) ==
    LET pruned == popleft_stale(window, t)
    IN  IF Len(pruned) >= limit
        THEN [window |-> pruned, raised |-> TRUE]
        ELSE [window |-> Append(Append(pruned, t), t), raised |-> FALSE]

_check_rate_limit_records_rejected(window, t, limit) ==
    LET pruned == popleft_stale(window, t)
    IN  IF Len(pruned) >= limit
        THEN [window |-> Append(pruned, t), raised |-> TRUE]
        ELSE [window |-> Append(pruned, t), raised |-> FALSE]

_check_rate_limit(window, t, limit) ==
    LET pruned == popleft_stale(window, t)
    IN  IF Len(pruned) >= limit
        THEN [window |-> pruned, raised |-> TRUE]
        ELSE [window |-> Append(pruned, t), raised |-> FALSE]

(***************************************************************************)
(* cachetools.TTLCache as TranscriptCache uses it, every value of size 1.  *)
(* data is Cache.__data, links the OrderedDict TTLCache.__links (least     *)
(* recently used first), list the linked list under TTLCache.__root        *)
(* (soonest to expire first), expires the expires field of each link.      *)
(* An entry is expired at time t when not t < expires.                     *)
(***************************************************************************)
EmptyCache == [data |-> <<>>, links |-> <<>>, list |-> <<>>, expires |-> <<>>]

Remove(s, k)    == SelectSeq(s, LAMBDA x : x # k)
MoveToEnd(s, k) == Append(Remove(s, k), k)
Without(f, k)   == [x \in DOMAIN f \ {k} |-> f[x]]
With(f, k, v)   == [x \in DOMAIN f \cup {k} |-> IF x = k THEN v ELSE f[x]]

delitem(c, key) ==
    [data    |-> Without(c.data, key),
     links   |-> Remove(c.links, key),
     list    |-> Remove(c.list, key),
     expires |-> Without(c.expires, key)]

RECURSIVE expire(_, _)
expire(c, time) ==
    IF c.list # <<>> /\ ~(time < c.expires[Head(c.list)])
    THEN expire(delitem(c, Head(c.list)), time)
    ELSE c

contains(c, key, time) ==
    key \in DOMAIN c.expires /\ time < c.expires[key]

popitem(c, time) ==
    LET c1 == expire(c, time)
    IN  delitem(c1, Head(c1.links))

RECURSIVE make_room(_, _, _)
make_room_never(c, time, maxsize) == c

make_room(c, time, maxsize) ==
    IF Cardinality(DOMAIN c.data) + 1 > maxsize
    THEN make_room(popitem(c, time), time, maxsize)
    ELSE c

store_keeps_expiry(c, key, value, time, ttl) ==
    [data    |-> With(c.data, key, value),
     links   |-> MoveToEnd(c.links, key),
     list    |-> MoveToEnd(c.list, key),
     expires |-> IF key \in DOMAIN c.expires THEN c.expires
                 ELSE With(c.expires, key, time + ttl)]

store(c, key, value, time, ttl) ==
    [data    |-> With(c.data, key, value),
     links   |-> MoveToEnd(c.links, key),
     list    |-> MoveToEnd(c.list, key),
     expires |-> With(c.expires, key, time + ttl)]

setitem_always_makes_room(c, key, value, time, maxsize, ttl) ==
    LET c1 == expire(c, time)
    IN  IF 1 > maxsize
        THEN [cache |-> c1, raised |-> TRUE]
        ELSE [cache |-> store(make_room(c1, time, maxsize), key, value, time, ttl),
              raised |-> FALSE]

setitem_expired_at_once(c, key, value, time, maxsize, ttl) ==
    LET c1 == expire(c, time)
    IN  IF 1 > maxsize
        THEN [cache |-> c1, raised |-> TRUE]
        ELSE LET c2 == IF key \notin DOMAIN c1.data
                       THEN make_room(c1, time, maxsize) ELSE c1
             IN  [cache |-> store(c2, key, value, time, 0), raised |-> FALSE]

setitem(c, key, value, time, maxsize, ttl) ==
    LET c1 == expire(c, time)
    IN  IF 1 > maxsize
        THEN [cache |-> c1, raised |-> TRUE]
        ELSE LET c2 == IF key \notin DOMAIN c1.data
                       THEN make_room(c1, time, maxsize) ELSE c1
             IN  [cache |-> store(c2, key, value, time, ttl), raised |-> FALSE]

cache_get_ignores_expiry(c, key, time) ==
    IF key \in DOMAIN c.data
    THEN [cache |-> [c EXCEPT !.links = MoveToEnd(c.links, key)],
          result |-> c.data[key]]
    ELSE [cache |-> c, result |-> None]

cache_get(c, key, time) ==
    IF contains(c, key, time)
    THEN [cache |-> [c EXCEPT !.links = MoveToEnd(c.links, key)],
          result |-> c.data[key]]
    ELSE [cache |-> c, result |-> None]

cache_len(c, time) ==
    LET c1 == expire(c, time)
    IN  [cache |-> c1, size |-> Cardinality(DOMAIN c1.data)]

(***************************************************************************)
(* TranscriptCache                                                         *)
(***************************************************************************)
_key(video_id, language) == video_id \o <<":">> \o language

\* round(num / den * 100, 1) in tenths of a percent, halves to the even
\* neighbour as Python's round does.
round1(num, den) ==
    LET q == (1000 * num) \div den
        r == (1000 * num) % den
    IN  IF 2 * r > den \/ (2 * r = den /\ q % 2 = 1) THEN q + 1 ELSE q

hit_rate_truncated(hits, misses) == (1000 * hits) \div Max(hits + misses, 1)

hit_rate(hits, misses) == round1(hits, Max(hits + misses, 1))


get_counts_both(c, hits, misses, video_id, language, time) ==
    LET r == cache_get(c, _key(video_id, language), time)
    IN  [cache  |-> r.cache,
         hits   |-> hits + 1,
         misses |-> misses + 1,
         result |-> r.result]

get(c, hits, misses, video_id, language, time) ==
    LET r == cache_get(c, _key(video_id, language), time)
    IN  [cache  |-> r.cache,
         hits   |-> IF r.result # None THEN hits + 1 ELSE hits,
         misses |-> IF r.result # None THEN misses ELSE misses + 1,
         result |-> r.result]

set(c, video_id, language, data, time, maxsize, ttl) ==
    setitem(c, _key(video_id, language), data, time, maxsize, ttl)

stats(c, time, maxsize, hits, misses) ==
    LET l == cache_len(c, time)
    IN  [cache    |-> l.cache,
         size     |-> l.size,
         max_size |-> maxsize,
         hits     |-> hits,
         misses   |-> misses,
         hit_rate |-> hit_rate(hits, misses)]

(***************************************************************************)
(* utils.extract_video_id                                                  *)
(***************************************************************************)
Lower  == {"a", "b", "c", "d", "e", "f", "g", "h", "i", "j", "k", "l", "m",
           "n", "o", "p", "q", "r", "s", "t", "u", "v", "w", "x", "y", "z"}
Upper  == {"A", "B", "C", "D", "E", "F", "G", "H", "I", "J", "K", "L", "M",
           "N", "O", "P", "Q", "R", "S", "T", "U", "V", "W", "X", "Y", "Z"}
Digits == {"0", "1", "2", "3", "4", "5", "6", "7", "8", "9"}
\* [a-zA-Z0-9_-]
IdChars == Lower \cup Upper \cup Digits \cup {"_", "-"}

\* the alternatives of the three patterns, in the order they are tried
Patterns == <<
    <<<<"v", "=">>, <<"/", "v", "/">>, <<"y", "o", "u", "t", "u", ".", "b", "e", "/">>>>,
    <<<<"e", "m", "b", "e", "d", "/">>>>,
    <<<<"s", "h", "o", "r", "t", "s", "/">>>> >>

StartsWithAt(s, i, prefix) ==
    /\ i + Len(prefix) - 1 <= Len(s)
    /\ SubSeq(s, i, i + Len(prefix) - 1) = prefix

\* [a-zA-Z0-9_-]{11} matches at position i of s
TokenAt(s, i) ==
    /\ i + IdLen - 1 <= Len(s)
    /\ \A j \in i..(i + IdLen - 1) : s[j] \in IdChars

\* alternative a of a pattern, then the token, match at position i of s
AltAt(s, i, a) == StartsWithAt(s, i, a) /\ TokenAt(s, i + Len(a))

\* re.search(pattern, s): group(1) of the leftmost match, the first
\* alternative that matches there; NoStr when there is no match
re_search(alts, s) ==
    LET starts == {i \in 1..Len(s) : \E n \in DOMAIN alts : AltAt(s, i, alts[n])}
    IN  IF starts = {} THEN NoStr
        ELSE LET i == CHOOSE i0 \in starts : \A i1 \in starts : i0 <= i1
                 n == CHOOSE n0 \in DOMAIN alts :
                          /\ AltAt(s, i, alts[n0])
                          /\ \A n1 \in DOMAIN alts : AltAt(s, i, alts[n1]) => n0 <= n1
                 g == i + Len(alts[n])
             IN  SubSeq(s, g, g + IdLen - 1)

\* re.match(r"^[a-zA-Z0-9_-]{11}$", s): $ matches at the end of s and also
\* just before a newline that ends s
re_match_whole(s) ==
    /\ TokenAt(s, 1)
    /\ \/ Len(s) = IdLen
       \/ Len(s) = IdLen + 1 /\ s[IdLen + 1] = "\n"

RECURSIVE first_match(_, _)
first_match(n, s) ==
    IF n > Len(Patterns) THEN NoStr
    ELSE IF re_search(Patterns[n], s) # NoStr THEN re_search(Patterns[n], s)
    ELSE first_match(n + 1, s)

extract_video_id(url_or_id) ==
    IF first_match(1, url_or_id) # NoStr THEN first_match(1, url_or_id)
    ELSE IF re_match_whole(url_or_id) THEN url_or_id
    ELSE NoStr

(***************************************************************************)
(* Inputs of the operations.                                               *)
(***************************************************************************)
\* (video_id, language) pairs given to a TranscriptCache called directly
CachePairs == {<<<<"a">>, <<"c">>>>,
               <<<<"a">>, <<"b", ":", "c">>>>,
               <<<<"a", ":", "b">>, <<"c">>>>}
CacheDatas == {[text |-> "1"], [text |-> "2"]}

\* what the tools are called with
Urls == {<<"d", "Q", "w", "4", "w", "9", "W", "g", "X", "c", "Q">>,
         <<"y", "o", "u", "t", "u", ".", "b", "e", "/", "a", "b", "c", "d", "e", "f", "g", "h", "i", "j", "k">>,
         <<"n", "o", "t", "-", "a", "-", "u", "r", "l">>}
\* extract_video_id on each of them, computed once
VideoIdOf == [u \in Urls |-> extract_video_id(u)]

Languages == {<<"e", "n">>}

\* the tool invocations that may be in progress at once
Tasks == {1, 2}

\* a tool invocation that is not running
IdleTask == [pc |-> "idle"]

\* the provider app_lifespan creates: its mode, the state of the httpx
\* client of a BackendProvider (a StandaloneProvider has none) and, as
\* history, the number of close() calls made on it
NewProvider(mode) ==
    [mode   |-> mode,
     client |-> IF mode = "backend" THEN "unopened" ELSE "none",
     closes |-> 0]

\* Settings.mode is standalone unless configured
StandaloneMode == _provider = NewProvider("standalone")

(***************************************************************************)
(* The state after construction: Settings() read, an empty cache with zero *)
(* counters ({0} for counts), an empty window, app_lifespan at its yield.  *)
(***************************************************************************)
InitWith(limits, sizes, counts) ==
    /\ now = 0
    /\ mono = 0
    /\ _settings \in [rate_limit_per_minute : limits,
                      cache_max_size        : sizes,
                      cache_ttl_seconds     : {CacheTtl}]
    /\ _rate_window = <<>>
    /\ ttl_cache = EmptyCache
    /\ _hits \in counts
    /\ _misses \in counts
    /\ ret = [op |-> "none"]
    /\ getCalls = _hits + _misses
    /\ lastSetAt = <<>>
    /\ task = [t \in Tasks |-> IdleTask]
    /\ calls = 0
    /\ fetches = 0
    /\ lifespan = [pc |-> "serving", closed |-> FALSE]

(***************************************************************************)
(* The clocks.  Both advance with real time; the wall clock alone can be   *)
(* set, forward or back (time.time() is not monotonic).                    *)
(***************************************************************************)
Tick ==
    /\ now + TickStep <= MaxTime
    /\ mono + TickStep <= MaxTime
    /\ now' = now + TickStep
    /\ mono' = mono + TickStep
    /\ UNCHANGED <<_settings, _rate_window, ret, cacheVars, serverVars, lifespan, _provider>>

ClockSet ==
    /\ \E t \in Times : t # now /\ now' = t
    /\ UNCHANGED <<mono, _settings, _rate_window, ret, cacheVars, serverVars, lifespan, _provider>>

(***************************************************************************)
(* A call of server._check_rate_limit().                                   *)
(***************************************************************************)
RateCheck ==
    LET r == _check_rate_limit(_rate_window, now,
                               _settings.rate_limit_per_minute)
    IN  /\ _rate_window' = r.window
        /\ ret' = [op |-> "_check_rate_limit", at |-> now, raised |-> r.raised]
        /\ UNCHANGED <<now, mono, _settings, cacheVars, serverVars, lifespan, _provider>>

\* history kept with a check: when the most recent admitted check was made
\* (-1 when there was none) and how many checks were rejected since, counted
\* up to MaxCalls
NoChecks == [admitted_at |-> -1, rejected |-> 0]
ChecksSoFar == IF ret.op = "none" THEN NoChecks ELSE ret.so_far

\* the same call, recorded with that history before and after it
RateCheckTraced ==
    LET r == _check_rate_limit(_rate_window, now,
                               _settings.rate_limit_per_minute)
    IN  /\ _rate_window' = r.window
        /\ ret' = [op |-> "_check_rate_limit", at |-> now, raised |-> r.raised,
                   before |-> ChecksSoFar,
                   so_far |-> IF r.raised
                              THEN [ChecksSoFar EXCEPT
                                      !.rejected = IF @ < MaxCalls THEN @ + 1 ELSE @]
                              ELSE [admitted_at |-> now, rejected |-> 0]]
        /\ UNCHANGED <<now, mono, _settings, cacheVars, serverVars, lifespan, _provider>>

(***************************************************************************)
(* Calls of TranscriptCache.set, .get and .stats.                          *)
(***************************************************************************)
\* what set changes besides the record of the call
SetEffect(video_id, language, data) ==
    LET r == set(ttl_cache, video_id, language, data, mono,
                 _settings.cache_max_size, _settings.cache_ttl_seconds)
    IN  /\ ttl_cache' = r.cache
        /\ lastSetAt' = IF r.raised THEN lastSetAt
                        ELSE With(lastSetAt, _key(video_id, language), mono)
        /\ UNCHANGED <<now, mono, _settings, _rate_window, _hits, _misses,
                       getCalls, serverVars, lifespan, _provider>>

SetRaised(video_id, language, data) ==
    set(ttl_cache, video_id, language, data, mono,
        _settings.cache_max_size, _settings.cache_ttl_seconds).raised

CacheSet(video_id, language, data) ==
    /\ SetEffect(video_id, language, data)
    /\ ret' = [op |-> "set", video_id |-> video_id, language |-> language,
               data |-> data, raised |-> SetRaised(video_id, language, data)]

\* history: the value and the expiry time stored under key, <<>> if none
Stored(c, key) ==
    IF key \in DOMAIN c.data THEN <<c.data[key], c.expires[key]>> ELSE <<>>

\* the same call, recorded with what the key held before it
CacheSetTraced(video_id, language, data) ==
    /\ SetEffect(video_id, language, data)
    /\ ret' = [op |-> "set", video_id |-> video_id, language |-> language,
               data |-> data, raised |-> SetRaised(video_id, language, data),
               replaced |-> Stored(ttl_cache, _key(video_id, language))]

CacheGet(video_id, language) ==
    LET r == get(ttl_cache, _hits, _misses, video_id, language, mono)
    IN  /\ getCalls < MaxGets
        /\ ttl_cache' = r.cache
        /\ _hits' = r.hits
        /\ _misses' = r.misses
        /\ getCalls' = getCalls + 1
        /\ ret' = [op |-> "get", video_id |-> video_id, language |-> language,
                   result |-> r.result]
        /\ UNCHANGED <<now, mono, _settings, _rate_window, lastSetAt,
                       serverVars, lifespan, _provider>>

CacheStats ==
    LET r == stats(ttl_cache, mono, _settings.cache_max_size, _hits, _misses)
    IN  /\ ttl_cache' = r.cache
        /\ ret' = [op |-> "stats", size |-> r.size, max_size |-> r.max_size,
                   hits |-> r.hits, misses |-> r.misses,
                   hit_rate |-> r.hit_rate]
        /\ UNCHANGED <<now, mono, _settings, _rate_window, _hits, _misses,
                       getCalls, lastSetAt, serverVars, lifespan, _provider>>

SetStep == \E p \in CachePairs, d \in CacheDatas : CacheSet(p[1], p[2], d)
GetStep == \E p \in CachePairs : CacheGet(p[1], p[2])

(***************************************************************************)
(* SpecRate: the rate limiter called directly, under a wall clock that may *)
(* be set back.  SpecCache: a TranscriptCache called directly.             *)
(***************************************************************************)
InitRate == InitWith(0..MaxLimit, {MaxCacheSize}, {0}) /\ StandaloneMode
NextRate == Tick \/ ClockSet \/ RateCheck
SpecRate == InitRate /\ [][NextRate]_vars

\* SpecSteady: the rate limiter under a clock that is never set back.
NextSteady == Tick \/ RateCheckTraced
SpecSteady == InitRate /\ [][NextSteady]_vars

InitCache == InitWith({MaxLimit}, 0..MaxCacheSize, {0}) /\ StandaloneMode
NextCache == Tick \/ SetStep \/ GetStep \/ CacheStats
SpecCache == InitCache /\ [][NextCache]_vars

\* SpecOverwrite: sets over time, each recorded with what it replaced; a set
\* moves its key to the end of the use order as a get does.
TracedSetStep ==
    \E p \in CachePairs, d \in CacheDatas : CacheSetTraced(p[1], p[2], d)
NextOverwrite == Tick \/ TracedSetStep
SpecOverwrite == InitCache /\ [][NextOverwrite]_vars

(***************************************************************************)
(* The provider.  get_transcript either returns a TranscriptResult for the *)
(* video or raises (no transcript, a transport error, a timeout).          *)
(***************************************************************************)
TranscriptResult(video_id, language) ==
    [video_id |-> video_id, language |-> language, is_generated |-> FALSE,
     segments |-> <<[text |-> <<"A", "b">>, start |-> 0],
                    [text |-> <<"x", "y">>, start |-> 2]>>,
     text |-> "Hello world", method |-> "standalone"]

\* result.model_dump(): the dict with the fields of the result
model_dump(result) == result

(***************************************************************************)
(* server._get_transcript_cached, up to its await and from it.             *)
(***************************************************************************)
\* cached = _cache.get(video_id, language); if cached: return it;
\* otherwise the provider is awaited
_get_transcript_cached(c, hits, misses, video_id, language, time) ==
    LET g == get(c, hits, misses, video_id, language, time)
    IN  [cache  |-> g.cache,
         hits   |-> g.hits,
         misses |-> g.misses,
         await  |-> g.result = None,
         result |-> g.result]

\* the awaited provider call has raised: the exception leaves the function
provider_raised_caches_error(c, video_id, language, time, maxsize, ttl) ==
    [cache  |-> set(c, video_id, language, [error |-> "fetch"], time,
                    maxsize, ttl).cache,
     raised |-> TRUE]

provider_raised(c, video_id, language, time, maxsize, ttl) ==
    [cache |-> c, raised |-> TRUE]

\* the awaited provider call has returned result: it is stored and returned,
\* unless the store raises
provider_returned(c, video_id, language, result, time, maxsize, ttl) ==
    LET r == set(c, video_id, language, model_dump(result), time, maxsize, ttl)
    IN  [cache |-> r.cache, raised |-> r.raised, result |-> result]

(***************************************************************************)
(* server.get_transcript, one invocation t: from the call to the await of  *)
(* the provider or to the return, and from the provider's answer to the    *)
(* return.  Code between two awaits runs without interruption.             *)
(***************************************************************************)
\* invocation t returns (or raises) out
Finish(t, tool, out) ==
    /\ task' = [task EXCEPT ![t] = IdleTask]
    /\ ret' = [op |-> tool, task |-> t, out |-> out]

GetTranscript(t, url, language) ==
    \E rl \in {_check_rate_limit(_rate_window, now,
                                 _settings.rate_limit_per_minute)},
       vid \in {VideoIdOf[url]} :
        /\ task[t].pc = "idle"
        /\ calls < MaxCalls
        /\ getCalls < MaxGets
        /\ calls' = calls + 1
        /\ _rate_window' = rl.window
        /\ IF rl.raised
           THEN /\ Finish(t, "get_transcript",
                          [kind |-> "raised", why |-> "rate limit"])
                /\ UNCHANGED <<cacheVars, fetches>>
           ELSE IF vid = NoStr
           THEN /\ Finish(t, "get_transcript",
                          [kind |-> "error", why |-> "invalid"])
                /\ UNCHANGED <<cacheVars, fetches>>
           ELSE \E g \in {_get_transcript_cached(ttl_cache, _hits, _misses,
                                                 vid, language, mono)} :
                /\ ttl_cache' = g.cache
                /\ _hits' = g.hits
                /\ _misses' = g.misses
                /\ getCalls' = getCalls + 1
                /\ UNCHANGED lastSetAt
                /\ IF g.await
                   THEN /\ task' = [task EXCEPT ![t] =
                                       [pc |-> "fetching",
                                        tool |-> "get_transcript",
                                        video_id |-> vid,
                                        language |-> language]]
                        /\ fetches' = fetches + 1
                        /\ UNCHANGED ret
                   ELSE /\ Finish(t, "get_transcript",
                                  [kind |-> "transcript", result |-> g.result])
                        /\ UNCHANGED fetches
        /\ UNCHANGED <<lifespan, _provider, now, mono, _settings>>

FetchOk(t) ==
    /\ task[t].pc = "fetching"
    /\ \E r \in {provider_returned(ttl_cache, task[t].video_id,
                     task[t].language,
                     TranscriptResult(task[t].video_id, task[t].language),
                     mono, _settings.cache_max_size,
                     _settings.cache_ttl_seconds)} :
        /\ ttl_cache' = r.cache
        /\ lastSetAt' = IF r.raised THEN lastSetAt
                        ELSE With(lastSetAt,
                                  _key(task[t].video_id, task[t].language), mono)
        /\ IF r.raised
           THEN Finish(t, task[t].tool, [kind |-> "error", why |-> "fetch"])
           ELSE Finish(t, task[t].tool,
                       [kind |-> "transcript", result |-> r.result])
    /\ UNCHANGED <<lifespan, _provider, now, mono, _settings, _rate_window, _hits, _misses,
                   getCalls, calls, fetches>>

FetchFail(t) ==
    /\ task[t].pc = "fetching"
    /\ \E r \in {provider_raised(ttl_cache, task[t].video_id,
                     task[t].language, mono, _settings.cache_max_size,
                     _settings.cache_ttl_seconds)} :
        /\ ttl_cache' = r.cache
        /\ Finish(t, task[t].tool, [kind |-> "error", why |-> "fetch"])
    /\ UNCHANGED <<lifespan, _provider, now, mono, _settings, _rate_window, _hits, _misses,
                   getCalls, lastSetAt, calls, fetches>>

CallStep == \E t \in Tasks, u \in Urls, l \in Languages : GetTranscript(t, u, l)
OkStep   == \E t \in Tasks : FetchOk(t)
FailStep == \E t \in Tasks : FetchFail(t)

(***************************************************************************)
(* Spec: the server, its tools invoked concurrently.                       *)
(***************************************************************************)
Init == InitWith({MaxLimit}, 0..MaxCacheSize, {0}) /\ StandaloneMode
Next == Tick \/ CallStep \/ OkStep \/ FailStep
Spec == Init /\ [][Next]_vars

(***************************************************************************)
(* server.batch_transcripts, one invocation t.  The loop over the urls     *)
(* runs without interruption until _get_transcript_cached awaits the       *)
(* provider for an item (a cache miss), and goes on from the provider's    *)
(* answer.  looked_up and fetched are history: the indices of the items    *)
(* for which the cache was looked up and the provider was called.          *)
(***************************************************************************)
MaxBatch == 10   \* len(urls) > 10 is refused
MaxUrls  == 2    \* batches of up to MaxUrls urls of any content are drawn

InvalidUrl == <<"n", "o", "t", "-", "a", "-", "u", "r", "l">>
ValidUrl   == <<"d", "Q", "w", "4", "w", "9", "W", "g", "X", "c", "Q">>

\* the urls lists given to batch_transcripts: every short list, a list of
\* exactly MaxBatch urls and the lists of MaxBatch + 1 equal urls
BatchInputs ==
    UNION {[1..n -> Urls] : n \in 0..MaxUrls}
    \cup {[i \in 1..MaxBatch |-> IF i = MaxBatch THEN ValidUrl ELSE InvalidUrl]}
    \cup {[i \in 1..(MaxBatch + 1) |-> u] : u \in Urls}

InvalidEntry(raw_url) == [kind |-> "error", why |-> "invalid", url |-> raw_url]
ResultEntry(vid, result) ==
    [kind |-> "transcript", video_id |-> vid, result |-> result]
ErrorEntry(vid) == [kind |-> "error", why |-> "fetch", video_id |-> vid]

\* len(urls) > 10
too_many_never(urls) == FALSE

too_many(urls) == Len(urls) > MaxBatch

\* the loop state b after the item b.i whose url did not parse: an error
\* entry, and on to the next item
invalid_item_dropped(b, raw_url) == [b EXCEPT !.i = @ + 1]

invalid_item_looked_up(b, raw_url) ==
    LET g == get(b.cache, b.hits, b.misses, NoStr, <<>>, 0)
    IN  [b EXCEPT !.results = Append(@, InvalidEntry(raw_url)), !.i = @ + 1,
                  !.cache = g.cache, !.hits = g.hits, !.misses = g.misses,
                  !.looked_up = Append(@, b.i)]

invalid_item(b, raw_url) ==
    [b EXCEPT !.results = Append(@, InvalidEntry(raw_url)), !.i = @ + 1]

\* the loop at server.py:250-264 from item b.i on, until the provider is
\* awaited (b.await) or the urls are exhausted
RECURSIVE batch_loop(_, _, _, _)
batch_loop(b, urls, language, time) ==
    IF b.i > Len(urls) THEN b
    ELSE IF VideoIdOf[urls[b.i]] = NoStr
    THEN batch_loop(invalid_item(b, urls[b.i]), urls, language, time)
    ELSE LET vid == VideoIdOf[urls[b.i]]
             g == _get_transcript_cached(b.cache, b.hits, b.misses, vid,
                                         language, time)
             b1 == [b EXCEPT !.cache = g.cache, !.hits = g.hits,
                             !.misses = g.misses,
                             !.looked_up = Append(@, b.i)]
         IN  IF g.await
             THEN [b1 EXCEPT !.await = TRUE, !.fetched = Append(@, b.i)]
             ELSE batch_loop([b1 EXCEPT !.results =
                                           Append(@, ResultEntry(vid, g.result)),
                                        !.i = @ + 1],
                             urls, language, time)

\* invocation t goes on with the loop state b: it awaits the provider for
\* item b.i or returns the batch
BatchGoOn(t, b, urls, language) ==
    /\ ttl_cache' = b.cache
    /\ _hits' = b.hits
    /\ _misses' = b.misses
    /\ getCalls' = _hits' + _misses'
    /\ IF b.await
       THEN /\ task' = [task EXCEPT ![t] =
                           [pc |-> "batch_fetching",
                            tool |-> "batch_transcripts",
                            urls |-> urls, language |-> language,
                            video_id |-> VideoIdOf[urls[b.i]],
                            i |-> b.i, results |-> b.results,
                            looked_up |-> b.looked_up,
                            fetched |-> b.fetched]]
            /\ fetches' = fetches + 1
            /\ UNCHANGED ret
       ELSE /\ Finish(t, "batch_transcripts",
                      [kind |-> "batch", count |-> Len(urls), urls |-> urls,
                       entries |-> b.results, looked_up |-> b.looked_up,
                       fetched |-> b.fetched])
            /\ UNCHANGED fetches

BatchTranscripts(t, urls, language) ==
    \E rl \in {_check_rate_limit(_rate_window, now,
                                 _settings.rate_limit_per_minute)} :
        /\ task[t].pc = "idle"
        /\ calls < Cardinality(Tasks)
        /\ calls' = calls + 1
        /\ _rate_window' = rl.window
        /\ IF rl.raised
           THEN /\ Finish(t, "batch_transcripts",
                          [kind |-> "raised", why |-> "rate limit"])
                /\ UNCHANGED <<cacheVars, fetches>>
           ELSE IF too_many(urls)
           THEN /\ Finish(t, "batch_transcripts",
                          [kind |-> "error", why |-> "too many"])
                /\ UNCHANGED <<cacheVars, fetches>>
           ELSE /\ BatchGoOn(t, batch_loop([cache |-> ttl_cache, hits |-> _hits,
                                            misses |-> _misses, i |-> 1,
                                            results |-> <<>>, looked_up |-> <<>>,
                                            fetched |-> <<>>, await |-> FALSE],
                                           urls, language, mono),
                             urls, language)
                /\ UNCHANGED lastSetAt
        /\ UNCHANGED <<lifespan, _provider, now, mono, _settings>>

\* the loop state of invocation t after its awaited item got entry
BatchResume(t, c, entry) ==
    batch_loop([cache |-> c, hits |-> _hits, misses |-> _misses,
                i |-> task[t].i + 1,
                results |-> Append(task[t].results, entry),
                looked_up |-> task[t].looked_up, fetched |-> task[t].fetched,
                await |-> FALSE],
               task[t].urls, task[t].language, mono)

BatchFetchOk(t) ==
    /\ task[t].pc = "batch_fetching"
    /\ \E r \in {provider_returned(ttl_cache, task[t].video_id,
                     task[t].language,
                     TranscriptResult(task[t].video_id, task[t].language),
                     mono, _settings.cache_max_size,
                     _settings.cache_ttl_seconds)} :
        /\ lastSetAt' = IF r.raised THEN lastSetAt
                        ELSE With(lastSetAt,
                                  _key(task[t].video_id, task[t].language), mono)
        /\ BatchGoOn(t, BatchResume(t, r.cache,
                                    IF r.raised
                                    THEN ErrorEntry(task[t].video_id)
                                    ELSE ResultEntry(task[t].video_id, r.result)),
                     task[t].urls, task[t].language)
    /\ UNCHANGED <<lifespan, _provider, now, mono, _settings, _rate_window, calls>>

BatchFetchFail(t) ==
    /\ task[t].pc = "batch_fetching"
    /\ \E r \in {provider_raised(ttl_cache, task[t].video_id,
                     task[t].language, mono, _settings.cache_max_size,
                     _settings.cache_ttl_seconds)} :
        BatchGoOn(t, BatchResume(t, r.cache, ErrorEntry(task[t].video_id)),
                  task[t].urls, task[t].language)
    /\ UNCHANGED <<lifespan, _provider, now, mono, _settings, _rate_window, lastSetAt, calls>>

BatchStep     == \E t \in Tasks, us \in BatchInputs, l \in Languages :
                     BatchTranscripts(t, us, l)
BatchOkStep   == \E t \in Tasks : BatchFetchOk(t)
BatchFailStep == \E t \in Tasks : BatchFetchFail(t)

\* SpecBatch: batch_transcripts invoked concurrently, as many invocations
\* as there are tasks, the clocks standing still (an item is a hit or a miss
\* by what the cache holds).
NextBatch == BatchStep \/ BatchOkStep \/ BatchFailStep
SpecBatch == Init /\ [][NextBatch]_vars

(***************************************************************************)
(* get_batch of the providers, one invocation t.  StandaloneProvider       *)
(* inherits TranscriptProvider.get_batch, which awaits get_transcript for  *)
(* one id after the other; BackendProvider.get_batch sends one POST for    *)
(* all the ids and converts the answer of the service.                     *)
(***************************************************************************)
Providers == {"standalone", "backend"}

VideoIds == {VideoIdOf[u] : u \in Urls} \ {NoStr}

\* the video_ids lists given to get_batch
IdLists == UNION {[1..n -> VideoIds] : n \in 0..MaxUrls}

\* {"video_id": vid, "error": str(e)}
ItemError(vid) == [video_id |-> vid, error |-> "failed"]

\* an item of the service's "results" for vid that is not an error
ItemOk(vid) == [video_id |-> vid, text |-> "Hello world"]

\* the JSON bodies of a 2xx answer to the POST: "results" with one item per
\* id in the order of the request, or a body without "results"
BackendBodies(video_ids) ==
    {[detail |-> "none"]}
    \cup {[results |-> r] :
            r \in {r \in [DOMAIN video_ids ->
                             {ItemOk(v) : v \in VideoIds}
                             \cup {ItemError(v) : v \in VideoIds}] :
                      \A i \in DOMAIN video_ids : r[i].video_id = video_ids[i]}}

\* backend.py:63-84: the items with "error" as they are, the others as
\* TranscriptResult
backend_results(data, language) ==
    LET items == IF "results" \in DOMAIN data THEN data.results ELSE <<>>
    IN  [i \in DOMAIN items |->
            IF "error" \in DOMAIN items[i] THEN items[i]
            ELSE [video_id |-> items[i].video_id, language |-> language,
                  is_generated |-> FALSE, text |-> items[i].text,
                  method |-> "backend"]]

Returned(provider, video_ids, results) ==
    [kind |-> "returned", provider |-> provider, video_ids |-> video_ids,
     results |-> results]

Raised(provider, video_ids) ==
    [kind |-> "raised", provider |-> provider, video_ids |-> video_ids]

GetBatch(t, provider, video_ids, language) ==
    /\ task[t].pc = "idle"
    /\ calls < Cardinality(Tasks)
    /\ calls' = calls + 1
    /\ IF provider = "backend"
       THEN /\ task' = [task EXCEPT ![t] =
                           [pc |-> "posting", tool |-> "get_batch",
                            provider |-> provider, video_ids |-> video_ids,
                            language |-> language]]
            /\ UNCHANGED <<ret, fetches>>
       ELSE IF video_ids = <<>>
       THEN /\ Finish(t, "get_batch", Returned(provider, video_ids, <<>>))
            /\ UNCHANGED fetches
       ELSE /\ task' = [task EXCEPT ![t] =
                           [pc |-> "get_batch", tool |-> "get_batch",
                            provider |-> provider, video_ids |-> video_ids,
                            language |-> language, i |-> 1, results |-> <<>>]]
            /\ fetches' = fetches + 1
            /\ UNCHANGED ret
    /\ UNCHANGED <<lifespan, _provider, now, mono, _settings, _rate_window, cacheVars>>

\* base.py:21-26: the awaited get_transcript of item i has ended with entry
BaseItem(t, entry) ==
    /\ task[t].pc = "get_batch"
    /\ IF task[t].i = Len(task[t].video_ids)
       THEN /\ Finish(t, "get_batch",
                      Returned(task[t].provider, task[t].video_ids,
                               Append(task[t].results, entry)))
            /\ UNCHANGED fetches
       ELSE /\ task' = [task EXCEPT ![t].i = @ + 1,
                                    ![t].results = Append(@, entry)]
            /\ fetches' = fetches + 1
            /\ UNCHANGED ret
    /\ UNCHANGED <<lifespan, _provider, now, mono, _settings, _rate_window, cacheVars, calls>>

ItemReturned(t) ==
    /\ task[t].pc = "get_batch"
    /\ BaseItem(t, TranscriptResult(task[t].video_ids[task[t].i],
                                    task[t].language))

ItemRaised(t) ==
    /\ task[t].pc = "get_batch"
    /\ BaseItem(t, ItemError(task[t].video_ids[task[t].i]))

\* backend.py:56-60: the POST fails (transport error, timeout) or
\* raise_for_status() raises for a 4xx or 5xx answer
PostRaised(t) ==
    /\ task[t].pc = "posting"
    /\ Finish(t, "get_batch", Raised(task[t].provider, task[t].video_ids))
    /\ UNCHANGED <<lifespan, _provider, now, mono, _settings, _rate_window, cacheVars, calls,
                   fetches>>

PostAnswered(t, data) ==
    /\ task[t].pc = "posting"
    /\ Finish(t, "get_batch",
              Returned(task[t].provider, task[t].video_ids,
                       backend_results(data, task[t].language)))
    /\ UNCHANGED <<lifespan, _provider, now, mono, _settings, _rate_window, cacheVars, calls,
                   fetches>>

GetBatchStep     == \E t \in Tasks, p \in Providers, ids \in IdLists,
                       l \in Languages : GetBatch(t, p, ids, l)
ItemReturnedStep == \E t \in Tasks : ItemReturned(t)
ItemRaisedStep   == \E t \in Tasks : ItemRaised(t)
PostRaisedStep   == \E t \in Tasks : PostRaised(t)
PostAnsweredStep == \E t \in Tasks :
                       /\ task[t].pc = "posting"
                       /\ \E d \in BackendBodies(task[t].video_ids) :
                             PostAnswered(t, d)

\* SpecProvider: get_batch of either provider invoked concurrently.
NextProvider == \/ GetBatchStep \/ ItemReturnedStep \/ ItemRaisedStep
                \/ PostRaisedStep \/ PostAnsweredStep
SpecProvider == Init /\ [][NextProvider]_vars

(***************************************************************************)
(* server.app_lifespan from its yield on.  The body of the async with      *)
(* (the running server) ends by returning or by raising; the context       *)
(* manager then resumes the generator at the yield, with the exception     *)
(* thrown into it when the body raised.  There is no try around the yield: *)
(* the code after it runs only when the generator is resumed normally.     *)
(***************************************************************************)
toolVars == <<now, mono, _settings, _rate_window, ret, cacheVars, task,
              calls, fetches>>

\* BackendProvider.close: await self._client.aclose().  httpx closes the
\* transport unless the client is closed already.
aclose_once_only(client) ==
    [client |-> "closed", raised |-> client = "closed"]

aclose(client) ==
    [client |-> IF client # "closed" THEN "closed" ELSE client,
     raised |-> FALSE]

\* close() of the provider p: pass for a StandaloneProvider
close(p) ==
    IF p.mode = "backend"
    THEN [provider |-> [p EXCEPT !.client = aclose(p.client).client,
                                 !.closes = @ + 1],
          raised   |-> aclose(p.client).raised]
    ELSE [provider |-> [p EXCEPT !.closes = @ + 1], raised |-> FALSE]

BodyReturns ==
    /\ lifespan.pc = "serving"
    /\ lifespan' = [lifespan EXCEPT !.pc = "resumed"]
    /\ UNCHANGED <<toolVars, _provider>>

BodyRaises ==
    /\ lifespan.pc = "serving"
    /\ lifespan' = [lifespan EXCEPT !.pc = "thrown"]
    /\ UNCHANGED <<toolVars, _provider>>

\* if _provider: await _provider.close(); the generator ends
CloseProvider ==
    /\ lifespan.pc = "resumed"
    /\ lifespan' = [pc |-> "stopped", closed |-> TRUE]
    /\ _provider' = close(_provider).provider
    /\ UNCHANGED toolVars

\* the exception thrown in at the yield leaves the generator
Propagate ==
    /\ lifespan.pc = "thrown"
    /\ lifespan' = [lifespan EXCEPT !.pc = "failed"]
    /\ UNCHANGED <<toolVars, _provider>>

\* the tools are served while the lifespan is at its yield
ServeStep == lifespan.pc = "serving" /\ (CallStep \/ OkStep \/ FailStep)

\* SpecLifespan: the server from startup to shutdown.  Once the body has
\* ended the event loop runs the generator on, so its two steps are fair.
NextLifespan == \/ ServeStep \/ BodyReturns \/ BodyRaises
                \/ CloseProvider \/ Propagate
SpecLifespan == /\ Init /\ [][NextLifespan]_vars
                /\ WF_vars(CloseProvider) /\ WF_vars(Propagate)

(***************************************************************************)
(* The provider's own life: requests made through it and close() called   *)
(* on it, by app_lifespan at shutdown and by any other holder of           *)
(* server._provider (tests/test_server.py:36 closes it inside the          *)
(* lifespan, which then closes it again).  A request of a BackendProvider  *)
(* goes through its httpx client, which refuses requests once closed; a    *)
(* StandaloneProvider holds no client.                                     *)
(***************************************************************************)
MaxCloses == 3

\* one request through the provider p (get_transcript, get_batch,
\* health_check): self._client.get / post for a BackendProvider
request(p) ==
    IF p.mode = "backend"
    THEN IF p.client = "closed"
         THEN [provider |-> p, raised |-> TRUE]
         ELSE [provider |-> [p EXCEPT !.client = "opened"], raised |-> FALSE]
    ELSE [provider |-> p, raised |-> FALSE]

ProviderRequest ==
    /\ fetches < MaxCalls
    /\ fetches' = fetches + 1
    /\ _provider' = request(_provider).provider
    /\ ret' = [op |-> "request", raised |-> request(_provider).raised]
    /\ UNCHANGED <<lifespan, now, mono, _settings, _rate_window, cacheVars,
                   task, calls>>

\* await server._provider.close() by a holder of the provider
ProviderClose ==
    /\ _provider.closes < MaxCloses
    /\ _provider' = close(_provider).provider
    /\ ret' = [op |-> "close", raised |-> close(_provider).raised]
    /\ UNCHANGED <<lifespan, now, mono, _settings, _rate_window, cacheVars,
                   task, calls, fetches>>

\* SpecClose: a provider of either mode from startup to shutdown
InitClose ==
    /\ InitWith({MaxLimit}, {MaxCacheSize}, {0})
    /\ _provider \in {NewProvider(mode) : mode \in Providers}
NextClose == \/ ProviderRequest \/ ProviderClose
             \/ BodyReturns \/ BodyRaises \/ CloseProvider \/ Propagate
SpecClose == InitClose /\ [][NextClose]_vars

(***************************************************************************)
(* utils.format_timestamp and the search of server.search_transcript       *)
(* (server.py:167-191) over the segments of a fetched transcript.  Python  *)
(* indexes from 0: segment i of the code is segments[i + 1] here.          *)
(***************************************************************************)
Min(a, b) == IF a <= b THEN a ELSE b

\* "h:mm:ss" when h > 0, else "m:ss": the numbers that are printed
format_timestamp(seconds) ==
    LET h  == seconds \div 3600
        m  == (seconds % 3600) \div 60
        sc == seconds % 60
    IN  IF h > 0 THEN <<h, m, sc>> ELSE <<m, sc>>

\* str.lower() on the characters the inputs are made of
lower_char(ch) ==
    CASE ch = "A" -> "a"
      [] ch = "B" -> "b"
      [] OTHER    -> ch

lower(str) == [i \in DOMAIN str |-> lower_char(str[i])]

\* a in b, for two str
str_in(a, b) ==
    \E i \in 1..(Len(b) - Len(a) + 1) : SubSeq(b, i, i + Len(a) - 1) = a

\* the whitespace that str.strip() removes, as far as the inputs have it
Whitespace == {" ", "\t", "\n"}

\* not query.strip()
is_blank_never(query) == FALSE

is_blank(query) == \A i \in DOMAIN query : query[i] \in Whitespace

\* one line of a match: the marker, the timestamp, the text
match_line(seg, marked) ==
    [mark |-> IF marked THEN "> " ELSE "  ",
     ts   |-> format_timestamp(seg.start),
     text |-> seg.text]

\* the lines of the match at segment i with its context
match_text_without_last(segments, i, context_segments) ==
    LET start_idx == Max(0, i - context_segments)
        end_idx   == Min(Len(segments), i + context_segments)
    IN  [k \in 1..(end_idx - start_idx) |->
            match_line(segments[start_idx + k], start_idx + k - 1 = i)]

match_text(segments, i, context_segments) ==
    LET start_idx == Max(0, i - context_segments)
        end_idx   == Min(Len(segments), i + context_segments + 1)
    IN  [k \in 1..(end_idx - start_idx) |->
            match_line(segments[start_idx + k], start_idx + k - 1 = i)]

\* the loop over enumerate(segments) from segment i on
RECURSIVE search_from(_, _, _, _)
search_from(segments, query_lower, context_segments, i) ==
    IF i >= Len(segments) THEN <<>>
    ELSE IF str_in(query_lower, lower(segments[i + 1].text))
    THEN <<match_text(segments, i, context_segments)>>
         \o search_from(segments, query_lower, context_segments, i + 1)
    ELSE search_from(segments, query_lower, context_segments, i + 1)

search(segments, query, context_segments) ==
    LET matches == search_from(segments, lower(query), context_segments, 0)
    IN  IF is_blank(query) THEN [kind |-> "error", why |-> "empty query"]
        ELSE IF matches = <<>> THEN [kind |-> "no matches"]
        ELSE [kind |-> "results", count |-> Len(matches), groups |-> matches]

MaxSegs    == 3   \* transcripts of up to MaxSegs segments
MaxContext == 2   \* context_segments is drawn from 0..MaxContext

SegTexts == {<<"A", "b">>, <<"a", "b", " ", "c">>, <<"x", "y">>}
Queries  == {<<"A", "B">>, <<"b", " ">>, <<"z">>, <<" ">>}

\* the transcripts searched: any texts, segment k starting at 2 * (k - 1)
SearchInputs ==
    {[k \in DOMAIN texts |-> [text |-> texts[k], start |-> 2 * (k - 1)]] :
        texts \in UNION {[1..n -> SegTexts] : n \in 0..MaxSegs}}

\* the state after construction with the arguments of a call in ret
InitCall(arguments) ==
    /\ now = 0
    /\ mono = 0
    /\ _settings = [rate_limit_per_minute |-> MaxLimit,
                    cache_max_size        |-> MaxCacheSize,
                    cache_ttl_seconds     |-> CacheTtl]
    /\ _rate_window = <<>>
    /\ ttl_cache = EmptyCache
    /\ _hits = 0
    /\ _misses = 0
    /\ ret \in arguments
    /\ getCalls = 0
    /\ lastSetAt = <<>>
    /\ task = [t \in Tasks |-> IdleTask]
    /\ calls = 0
    /\ fetches = 0
    /\ lifespan = [pc |-> "serving", closed |-> FALSE]

Search ==
    /\ ret.op = "search arguments"
    /\ ret' = [op |-> "search_transcript", segments |-> ret.segments,
               query |-> ret.query, context_segments |-> ret.context_segments,
               out |-> search(ret.segments, ret.query, ret.context_segments)]
    /\ UNCHANGED <<now, mono, _settings, _rate_window, cacheVars, serverVars,
                   lifespan, _provider>>

\* SpecSearch: the search applied to every transcript, query and context.
InitSearch ==
    /\ StandaloneMode
    /\ InitCall({[op |-> "search arguments", segments |-> segs, query |-> q,
               context_segments |-> c] :
                 segs \in SearchInputs, q \in Queries, c \in 0..MaxContext})
NextSearch == Search
SpecSearch == InitSearch /\ [][NextSearch]_vars

(***************************************************************************)
(* The chunking of server.get_transcript_summary (server.py:212-230) over  *)
(* the segments of a fetched transcript, start times in whole seconds.     *)
(***************************************************************************)
\* int(seg.start // chunk_seconds)
chunk_index_boundary_earlier(start, chunk_seconds) ==
    (start - 1) \div chunk_seconds

chunk_index(start, chunk_seconds) == start \div chunk_seconds

\* chunks.setdefault(chunk_idx, []).append(seg) for the segments from k on
RECURSIVE group_chunks(_, _, _, _)
group_chunks(chunks, segments, chunk_seconds, k) ==
    IF k > Len(segments) THEN chunks
    ELSE LET idx == chunk_index(segments[k].start, chunk_seconds)
             cur == IF idx \in DOMAIN chunks THEN chunks[idx] ELSE <<>>
         IN  group_chunks(With(chunks, idx, Append(cur, segments[k])),
                          segments, chunk_seconds, k + 1)

\* sorted(keys)
RECURSIVE sorted(_)
sorted(keys) ==
    IF keys = {} THEN <<>>
    ELSE LET least == CHOOSE x \in keys : \A y \in keys : x <= y
         IN  <<least>> \o sorted(keys \ {least})

\* " ".join(texts)
RECURSIVE join(_)
join(texts) ==
    IF texts = <<>> THEN <<>>
    ELSE IF Len(texts) = 1 THEN texts[1]
    ELSE texts[1] \o <<" ">> \o join(Tail(texts))

\* the parts of the summary: per chunk its two timestamps and its text
summary(segments, chunk_minutes) ==
    LET chunk_seconds == chunk_minutes * 60
        chunks == group_chunks(<<>>, segments, chunk_seconds, 1)
        keys   == sorted(DOMAIN chunks)
    IN  [n \in DOMAIN keys |->
            [start_ts |-> format_timestamp(keys[n] * chunk_seconds),
             end_ts   |-> format_timestamp((keys[n] + 1) * chunk_seconds),
             text     |-> join([j \in DOMAIN chunks[keys[n]] |->
                                   chunks[keys[n]][j].text])]]

MaxChunkMinutes == 2   \* chunk_minutes is drawn from 1..MaxChunkMinutes

\* start times: the minute boundaries and the second before each
ChunkStarts == {m * 60 + d : m \in 0..MaxChunkMinutes, d \in {0, 59}}

\* the text of the k-th segment of a transcript
Word(k) == <<"w", ToString(k)>>

\* the transcripts chunked: any start times in any order
SummaryInputs ==
    {[k \in DOMAIN starts |-> [text |-> Word(k), start |-> starts[k]]] :
        starts \in UNION {[1..n -> ChunkStarts] : n \in 0..MaxSegs}}

Summary ==
    /\ ret.op = "summary arguments"
    /\ ret' = [op |-> "get_transcript_summary", segments |-> ret.segments,
               chunk_minutes |-> ret.chunk_minutes,
               out |-> summary(ret.segments, ret.chunk_minutes)]
    /\ UNCHANGED <<now, mono, _settings, _rate_window, cacheVars, serverVars,
                   lifespan, _provider>>

\* SpecSummary: the chunking applied to every transcript and chunk size.
InitSummary ==
    /\ StandaloneMode
    /\ InitCall({[op |-> "summary arguments", segments |-> segs,
               chunk_minutes |-> m] :
                 segs \in SummaryInputs, m \in 1..MaxChunkMinutes})
NextSummary == Summary
SpecSummary == InitSummary /\ [][NextSummary]_vars

(***************************************************************************)
(* utils.extract_video_id applied to strings made of a prefix, a run of    *)
(* characters and a suffix.                                                *)
(***************************************************************************)
ParsePrefixes == {<<>>, <<"v", "=">>, <<"/", "v", "/">>,
                  <<"y", "o", "u", "t", "u", ".", "b", "e", "/">>,
                  <<"e", "m", "b", "e", "d", "/">>,
                  <<"s", "h", "o", "r", "t", "s", "/">>, <<"x", "/">>}

\* 10, 11 and 12 characters of the alphabet, and 11 with one outside it
ParseRuns == {<<"d", "Q", "w", "4", "w", "9", "W", "g", "X", "c">>,
              <<"d", "Q", "w", "4", "w", "9", "W", "g", "X", "c", "Q">>,
              <<"d", "Q", "w", "4", "w", "9", "W", "g", "X", "c", "Q", "_">>,
              <<"d", "Q", "w", "4", "w", "!", "W", "g", "X", "c", "Q">>}

ParseSuffixes == {<<>>, <<"\n">>, <<"&", "t", "=", "1">>, <<"\n", "\n">>}

ParseInputs == {p \o r \o x : p \in ParsePrefixes, r \in ParseRuns,
                              x \in ParseSuffixes}

Parse ==
    /\ ret.op = "parse arguments"
    /\ ret' = [op |-> "extract_video_id", url_or_id |-> ret.url_or_id,
               out |-> extract_video_id(ret.url_or_id)]
    /\ UNCHANGED <<now, mono, _settings, _rate_window, cacheVars, serverVars,
                   lifespan, _provider>>

\* SpecParse: extract_video_id applied to every one of the strings.
InitParse ==
    /\ StandaloneMode
    /\ InitCall({[op |-> "parse arguments", url_or_id |-> u] : u \in ParseInputs})
NextParse == Parse
SpecParse == InitParse /\ [][NextParse]_vars

\* strings that hold two URL shapes, each followed by its own token: the
\* shapes are v=, youtu.be/, embed/ and shorts/
ShapePrefixes == ParsePrefixes \ {<<>>, <<"x", "/">>, <<"/", "v", "/">>}
TokenA == [i \in 1..IdLen |-> "A"]
TokenB == [i \in 1..IdLen |-> "B"]
ShapeSeparators == {<<"?">>, <<"&">>, <<"/">>, <<"#">>}
ShapeInputs == {p \o TokenA \o x \o q \o TokenB :
                   p \in ShapePrefixes, x \in ShapeSeparators,
                   q \in ShapePrefixes}

\* SpecShapes: extract_video_id applied to every one of these strings.
InitShapes ==
    /\ StandaloneMode
    /\ InitCall({[op |-> "parse arguments", url_or_id |-> u] : u \in ShapeInputs})
SpecShapes == InitShapes /\ [][NextParse]_vars

(***************************************************************************)
(* server.search_transcript, one invocation t: from the call to the await  *)
(* of the provider or to the return, and from the provider's answer to the *)
(* return.                                                                 *)
(***************************************************************************)
ToolQueries == {<<>>, <<" ", "\t">>, <<"A", "B">>, <<"z">>}

SearchTranscript(t, url, query, language, context_segments) ==
    \E rl \in {_check_rate_limit(_rate_window, now,
                                 _settings.rate_limit_per_minute)},
       vid \in {VideoIdOf[url]} :
        /\ task[t].pc = "idle"
        /\ calls < Cardinality(Tasks)
        /\ calls' = calls + 1
        /\ _rate_window' = rl.window
        /\ IF rl.raised
           THEN /\ Finish(t, "search_transcript",
                          [kind |-> "raised", why |-> "rate limit"])
                /\ UNCHANGED <<cacheVars, fetches>>
           ELSE IF vid = NoStr
           THEN /\ Finish(t, "search_transcript",
                          [kind |-> "error", why |-> "invalid"])
                /\ UNCHANGED <<cacheVars, fetches>>
           ELSE IF is_blank(query)
           THEN /\ Finish(t, "search_transcript",
                          [kind |-> "error", why |-> "empty query"])
                /\ UNCHANGED <<cacheVars, fetches>>
           ELSE \E g \in {_get_transcript_cached(ttl_cache, _hits, _misses,
                                                 vid, language, mono)} :
                /\ ttl_cache' = g.cache
                /\ _hits' = g.hits
                /\ _misses' = g.misses
                /\ getCalls' = getCalls + 1
                /\ UNCHANGED lastSetAt
                /\ IF g.await
                   THEN /\ task' = [task EXCEPT ![t] =
                                       [pc |-> "search_fetching",
                                        tool |-> "search_transcript",
                                        video_id |-> vid,
                                        language |-> language,
                                        query |-> query,
                                        context_segments |-> context_segments]]
                        /\ fetches' = fetches + 1
                        /\ UNCHANGED ret
                   ELSE /\ Finish(t, "search_transcript",
                                  search(g.result.segments, query,
                                         context_segments))
                        /\ UNCHANGED fetches
        /\ UNCHANGED <<lifespan, _provider, now, mono, _settings>>

SearchFetchOk(t) ==
    /\ task[t].pc = "search_fetching"
    /\ \E r \in {provider_returned(ttl_cache, task[t].video_id,
                     task[t].language,
                     TranscriptResult(task[t].video_id, task[t].language),
                     mono, _settings.cache_max_size,
                     _settings.cache_ttl_seconds)} :
        /\ ttl_cache' = r.cache
        /\ lastSetAt' = IF r.raised THEN lastSetAt
                        ELSE With(lastSetAt,
                                  _key(task[t].video_id, task[t].language), mono)
        /\ IF r.raised
           THEN Finish(t, task[t].tool, [kind |-> "error", why |-> "fetch"])
           ELSE Finish(t, task[t].tool,
                       search(r.result.segments, task[t].query,
                              task[t].context_segments))
    /\ UNCHANGED <<lifespan, _provider, now, mono, _settings, _rate_window, _hits,
                   _misses, getCalls, calls, fetches>>

SearchFetchFail(t) ==
    /\ task[t].pc = "search_fetching"
    /\ \E r \in {provider_raised(ttl_cache, task[t].video_id,
                     task[t].language, mono, _settings.cache_max_size,
                     _settings.cache_ttl_seconds)} :
        /\ ttl_cache' = r.cache
        /\ Finish(t, task[t].tool, [kind |-> "error", why |-> "fetch"])
    /\ UNCHANGED <<lifespan, _provider, now, mono, _settings, _rate_window, _hits,
                   _misses, getCalls, lastSetAt, calls, fetches>>

SearchStep     == \E t \in Tasks, u \in Urls, q \in ToolQueries,
                     l \in Languages, c \in 0..MaxContext :
                      SearchTranscript(t, u, q, l, c)
SearchOkStep   == \E t \in Tasks : SearchFetchOk(t)
SearchFailStep == \E t \in Tasks : SearchFetchFail(t)

\* SpecSearchTool: search_transcript invoked concurrently, as many
\* invocations as there are tasks, the clocks standing still.
NextSearchTool == SearchStep \/ SearchOkStep \/ SearchFailStep
SpecSearchTool == Init /\ [][NextSearchTool]_vars

\* SpecTools: get_transcript, batch_transcripts and search_transcript
\* invoked concurrently, as many invocations as there are tasks, under every
\* rate limit up to MaxLimit, the clocks standing still.  The batches are
\* two urls that parse, one that does not, and one url too many.
ShortLinkUrl == <<"y", "o", "u", "t", "u", ".", "b", "e", "/", "a", "b", "c", "d", "e", "f", "g", "h", "i", "j", "k">>
ToolBatches == {<<ValidUrl, ShortLinkUrl>>, <<InvalidUrl>>,
                [i \in 1..(MaxBatch + 1) |-> ValidUrl]}

ToolsCallStep   == calls < Cardinality(Tasks) /\ CallStep
ToolsBatchStep  == \E t \in Tasks, us \in ToolBatches, l \in Languages :
                      BatchTranscripts(t, us, l)
ToolsSearchStep == \E t \in Tasks, u \in Urls, q \in ToolQueries,
                      l \in Languages : SearchTranscript(t, u, q, l, 0)

InitTools == InitWith(0..MaxLimit, 0..MaxCacheSize, {0}) /\ StandaloneMode
NextTools == \/ ToolsCallStep \/ OkStep \/ FailStep
             \/ ToolsBatchStep \/ BatchOkStep \/ BatchFailStep
             \/ ToolsSearchStep \/ SearchOkStep \/ SearchFailStep
SpecTools == InitTools /\ [][NextTools]_vars

\* SpecHitRate: stats() applied to a cache whose counters have any values up
\* to MaxCounter.
MaxCounter == 9

InitHitRate == InitWith({MaxLimit}, {MaxCacheSize}, 0..MaxCounter) /\ StandaloneMode

NextHitRate == CacheStats
SpecHitRate == InitHitRate /\ [][NextHitRate]_vars

(***************************************************************************)
(* The rate limiter (SpecRate).                                            *)
(***************************************************************************)
Limit == _settings.rate_limit_per_minute

IsCheck == ret.op = "_check_rate_limit"

\* the timestamps of the window that lie in the 60 seconds up to t
InTrailingWindow(window, t) ==
    {i \in DOMAIN window : t - WindowSeconds <= window[i] /\ window[i] <= t}

\* C1: the window never holds more than rate_limit_per_minute timestamps,
\* and a check made when that many admitted timestamps lie in the trailing
\* 60 seconds is rejected.
C1_WindowBounded ==
    /\ [](Len(_rate_window) <= Limit)
    /\ [][(RateCheck /\ Cardinality(InTrailingWindow(_rate_window, now)) >= Limit)
            => ret'.raised]_vars

C1_Witness ==
    /\ IsCheck /\ ret.raised
    /\ Limit >= 1
    /\ Len(_rate_window) = Limit

\* what is left of window w after dropping its leading stale timestamps at t
IsPrunedAt(w2, w, t) ==
    \E k \in 0..Len(w) :
        /\ w2 = SubSeq(w, k + 1, Len(w))
        /\ \A i \in 1..k : w[i] < t - WindowSeconds
        /\ k < Len(w) => ~(w[k + 1] < t - WindowSeconds)

\* C2: a rejected check records nothing: the window after it is the window
\* before it less the pruned leading timestamps, with no timestamp added.
C2_RejectedNotRecorded ==
    [][(RateCheck /\ ret'.raised) => IsPrunedAt(_rate_window', _rate_window, now)]_vars

C2_Witness ==
    /\ IsCheck /\ ret.raised
    /\ Len(_rate_window) >= 1
    /\ ret.at \in {_rate_window[i] : i \in DOMAIN _rate_window}

\* C3: after a check made at time t the window holds no timestamp older
\* than t - 60 seconds.
C3_NoStaleTimestamp ==
    IsCheck => \A i \in DOMAIN _rate_window :
                   _rate_window[i] >= ret.at - WindowSeconds

(***************************************************************************)
(* TranscriptCache (SpecCache, SpecHitRate).                               *)
(***************************************************************************)
MaxSize == _settings.cache_max_size
Ttl     == _settings.cache_ttl_seconds

\* what stats()["size"] is in the current state
SizeNow == stats(ttl_cache, mono, MaxSize, _hits, _misses).size

\* C4: stats().size <= max_size after every call, also when more than
\* max_size distinct keys have been set.
C4_SizeBounded ==
    /\ SizeNow <= MaxSize
    /\ Cardinality(DOMAIN ttl_cache.data) <= MaxSize
    /\ ret.op = "stats" => ret.size <= ret.max_size

C4_Witness ==
    /\ ret.op = "set" /\ ~ret.raised
    /\ Cardinality(DOMAIN lastSetAt) > MaxSize
    /\ SizeNow = MaxSize

\* C5: a get made when the TTL has elapsed since the most recent set of the
\* key returns None and counts a miss, whether or not the entry is still
\* stored.
C5_NeverReturnedAfterTtl ==
    [][\A p \in CachePairs :
          (/\ CacheGet(p[1], p[2])
           /\ _key(p[1], p[2]) \in DOMAIN lastSetAt
           /\ mono >= lastSetAt[_key(p[1], p[2])] + Ttl)
          => (/\ ret'.result = None
              /\ _misses' = _misses + 1
              /\ _hits' = _hits)]_vars

C5_Witness ==
    /\ ret.op = "get" /\ ret.result = None
    /\ _key(ret.video_id, ret.language) \in DOMAIN ttl_cache.data
    /\ mono >= lastSetAt[_key(ret.video_id, ret.language)] + Ttl

Lookup(c, p, time) == cache_get(c, _key(p[1], p[2]), time).result

\* C7: a set under one (video_id, language) pair never changes the value
\* that get returns for a different pair, other than by evicting it.
C7_KeyedByExactPair ==
    [][\A p \in CachePairs, q \in CachePairs, d \in CacheDatas :
          (p # q /\ CacheSet(p[1], p[2], d))
          => Lookup(ttl_cache', q, mono') \in {Lookup(ttl_cache, q, mono), None}]_vars

\* C8: a get increments the hit counter when it returns a value and the
\* miss counter when it returns None, never both; set and stats change
\* neither; so hits + misses is the number of get calls made.
C8_OneCounterPerGet ==
    /\ [](_hits + _misses = getCalls)
    /\ [][/\ GetStep => IF ret'.result # None
                        THEN _hits' = _hits + 1 /\ _misses' = _misses
                        ELSE _hits' = _hits /\ _misses' = _misses + 1
          /\ (SetStep \/ CacheStats) => UNCHANGED <<_hits, _misses>>]_vars

C8_Witness ==
    /\ getCalls >= 2
    /\ _hits >= 1
    /\ _misses >= 1

\* round(h / (h + m) * 100, 1) in tenths of a percent: the integer nearest
\* to 1000 * h / (h + m), the even one of two equally near.
RoundedPercent(h, m) ==
    CHOOSE r \in 0..1000 :
        /\ 2 * (r * (h + m) - 1000 * h) <= h + m
        /\ 2 * (1000 * h - r * (h + m)) <= h + m
        /\ (2 * (r * (h + m) - 1000 * h) = h + m
            \/ 2 * (1000 * h - r * (h + m)) = h + m) => r % 2 = 0

\* C9: stats().hit_rate is round(h / (h + m) * 100, 1) after h hits and m
\* misses, and 0.0 before any lookup.
C9_HitRate ==
    ret.op = "stats" =>
        ret.hit_rate = IF ret.hits = 0 /\ ret.misses = 0
                       THEN 0
                       ELSE RoundedPercent(ret.hits, ret.misses)

C9_Witness ==
    /\ ret.op = "stats"
    /\ ret.hits = 2 /\ ret.misses = 1
    /\ ret.hit_rate = 667

(***************************************************************************)
(* The cached retrieval path (Spec).                                       *)
(***************************************************************************)
\* the dicts that _get_transcript_cached stores for results of the provider
StoredResults ==
    {model_dump(TranscriptResult(VideoIdOf[u], l)) : u \in Urls, l \in Languages}

FetchError == [kind |-> "error", why |-> "fetch"]

\* C10: when the provider call made after a cache miss raises, the tool
\* gets the failure and the cache is left as it was; the cache only ever
\* holds results the provider returned.
C10_FailedFetchNotCached ==
    /\ [](\A k \in DOMAIN ttl_cache.data : ttl_cache.data[k] \in StoredResults)
    /\ [][FailStep => /\ ttl_cache' = ttl_cache
                      /\ ret'.out = FetchError]_vars

C10_Witness ==
    /\ ret.op = "get_transcript" /\ ret.out = FetchError
    /\ _misses >= 1 /\ fetches >= 1
    /\ MaxSize >= 1
    /\ lastSetAt = <<>> /\ ttl_cache = EmptyCache

\* the check made at the start of a tool invocation now would admit it
Admitted ==
    ~_check_rate_limit(_rate_window, now, _settings.rate_limit_per_minute).raised

\* the cache holds an entry for (video_id, language) that has not expired
LiveEntry(c, video_id, language, time) ==
    contains(c, _key(video_id, language), time)

\* C11: _get_transcript_cached returns the cached result without a provider
\* call when a live entry exists; otherwise it calls the provider once, with
\* no retry, and when the provider returns it stores the result under
\* (video_id, language) and returns it, so that the entry is live for the
\* lookups that follow.
C11_CachedOrFetchedOnce ==
    /\ [][\A t \in Tasks, u \in Urls, l \in Languages :
            (GetTranscript(t, u, l) /\ Admitted /\ VideoIdOf[u] # NoStr)
            => IF LiveEntry(ttl_cache, VideoIdOf[u], l, mono)
               THEN /\ fetches' = fetches
                    /\ ret'.out = [kind   |-> "transcript",
                                   result |-> ttl_cache.data[_key(VideoIdOf[u], l)]]
               ELSE /\ fetches' = fetches + 1
                    /\ task'[t].pc = "fetching"]_vars
    /\ [][(OkStep \/ FailStep) => fetches' = fetches]_vars
    /\ [][\A t \in Tasks :
            FetchOk(t)
            => /\ ret'.out = [kind   |-> "transcript",
                              result |-> TranscriptResult(task[t].video_id,
                                                          task[t].language)]
               /\ LiveEntry(ttl_cache', task[t].video_id, task[t].language, mono')
               /\ ttl_cache'.data[_key(task[t].video_id, task[t].language)]
                    = model_dump(TranscriptResult(task[t].video_id,
                                                  task[t].language))]_vars

(***************************************************************************)
(* batch_transcripts (SpecBatch).                                          *)
(***************************************************************************)
IsBatch == ret.op = "batch_transcripts" /\ ret.out.kind = "batch"

TooMany == [kind |-> "error", why |-> "too many"]

\* the urls lists with more than MaxBatch urls
LongInputs == {us \in BatchInputs : Len(us) > MaxBatch}

\* C12: batch_transcripts given more than MaxBatch urls returns the single
\* too-many error, with no entry for any url, and neither looks up or
\* changes the cache nor calls the provider.
C12_TooManyRefused ==
    [][\A t \in Tasks, us \in LongInputs, l \in Languages :
          (BatchTranscripts(t, us, l) /\ Admitted)
          => /\ ret' = [op |-> "batch_transcripts", task |-> t, out |-> TooMany]
             /\ task'[t] = IdleTask
             /\ UNCHANGED <<cacheVars, fetches>>]_vars

C12_Witness ==
    /\ ret.op = "batch_transcripts" /\ ret.out = TooMany
    /\ calls = 1
    /\ fetches = 0 /\ getCalls = 0 /\ ttl_cache = EmptyCache

\* the entry for urls[i] is an entry about that url: the invalid-url error
\* when it does not parse, else a result or a fetch error for its video id
EntryFor(entry, raw_url) ==
    IF VideoIdOf[raw_url] = NoStr
    THEN entry = InvalidEntry(raw_url)
    ELSE \/ entry = ErrorEntry(VideoIdOf[raw_url])
         \/ /\ entry.kind = "transcript"
            /\ entry.video_id = VideoIdOf[raw_url]
            /\ entry.result.video_id = VideoIdOf[raw_url]

\* C13: a batch of at most MaxBatch urls returns one entry per url, in the
\* order of the urls, each a result or an item error; while the batch runs
\* every item before the current one has its entry, whatever failed.
C13_OneEntryPerUrl ==
    /\ IsBatch =>
          /\ Len(ret.out.urls) <= MaxBatch
          /\ Len(ret.out.entries) = Len(ret.out.urls)
          /\ ret.out.count = Len(ret.out.urls)
          /\ \A i \in DOMAIN ret.out.urls :
                EntryFor(ret.out.entries[i], ret.out.urls[i])
    /\ \A t \in Tasks :
          task[t].pc = "batch_fetching" =>
              /\ task[t].i \in DOMAIN task[t].urls
              /\ Len(task[t].results) = task[t].i - 1
              /\ \A i \in DOMAIN task[t].results :
                    EntryFor(task[t].results[i], task[t].urls[i])

\* a fetch failure on the first url, a result for the second
C13_Witness ==
    /\ IsBatch
    /\ Len(ret.out.entries) = 2
    /\ ret.out.entries[1] = ErrorEntry(VideoIdOf[ret.out.urls[1]])
    /\ ret.out.entries[2].kind = "transcript"

\* the elements of a sequence
Range(s) == {s[i] : i \in DOMAIN s}

\* C14: in a returned batch every url that does not parse has the
\* invalid-url entry and was neither looked up in the cache nor fetched; the
\* cache was looked up once for each url that parses and for no other.
C14_InvalidNotLookedUp ==
    /\ IsBatch =>
          /\ \A i \in DOMAIN ret.out.urls :
                VideoIdOf[ret.out.urls[i]] = NoStr
                => /\ ret.out.entries[i] = InvalidEntry(ret.out.urls[i])
                   /\ i \notin Range(ret.out.looked_up)
                   /\ i \notin Range(ret.out.fetched)
          /\ Len(ret.out.looked_up) =
                Cardinality({i \in DOMAIN ret.out.urls :
                                VideoIdOf[ret.out.urls[i]] # NoStr})
    /\ fetches <= getCalls

C14_Witness ==
    /\ IsBatch
    /\ \A i \in DOMAIN ret.out.urls : VideoIdOf[ret.out.urls[i]] = NoStr
    /\ Len(ret.out.urls) >= 1
    /\ calls = 1 /\ getCalls = 0 /\ fetches = 0

(***************************************************************************)
(* get_batch of the providers (SpecProvider).                              *)
(***************************************************************************)
\* C15: get_batch of either provider returns a list as long as video_ids,
\* its i-th entry a result or an error entry for video_ids[i]; what fails
\* for one id does not keep the others from their entries.
C15_BatchSameLengthAndOrder ==
    ret.op = "get_batch" =>
        /\ ret.out.kind = "returned"
        /\ Len(ret.out.results) = Len(ret.out.video_ids)
        /\ \A i \in DOMAIN ret.out.video_ids :
              ret.out.results[i].video_id = ret.out.video_ids[i]

(***************************************************************************)
(* app_lifespan (SpecLifespan).                                            *)
(***************************************************************************)
\* C16: whenever the lifespan is left, by the body returning or by the body
\* raising, close() of the provider is eventually run.
C16_CloseOnEveryExit ==
    (lifespan.pc \in {"resumed", "thrown"}) ~> lifespan.closed

(***************************************************************************)
(* Concurrent tool invocations (Spec).                                     *)
(***************************************************************************)
\* C17: however the invocations interleave at their awaits, the window
\* never holds more than the limit, the cache never more than max_size
\* entries, and a timestamp is appended by exactly the admitted checks: an
\* admitted invocation appends one to the pruned window, a rejected one
\* only prunes, and no other step touches the window.
C17_AtomicUnderInterleaving ==
    /\ [](Len(_rate_window) <= Limit)
    /\ [](Cardinality(DOMAIN ttl_cache.data) <= MaxSize /\ SizeNow <= MaxSize)
    /\ [][\A t \in Tasks, u \in Urls, l \in Languages :
            GetTranscript(t, u, l)
            => IF Admitted
               THEN /\ _rate_window' =
                          Append(popleft_stale(_rate_window, now), now)
                    /\ task'[t].pc = "fetching" \/ ret'.out.kind # "raised"
               ELSE /\ _rate_window' = popleft_stale(_rate_window, now)
                    /\ ret'.out.kind = "raised"]_vars
    /\ [][(Tick \/ OkStep \/ FailStep) => UNCHANGED _rate_window]_vars

\* one invocation awaits the provider while another has stored its result;
\* the window is full, and the cache is full after an eviction
C17_Witness ==
    /\ \E t \in Tasks : task[t].pc = "fetching"
    /\ ret.op = "get_transcript" /\ ret.out.kind = "transcript"
    /\ Len(_rate_window) = Limit
    /\ MaxSize >= 1
    /\ Cardinality(DOMAIN ttl_cache.data) = MaxSize
    /\ Cardinality(DOMAIN lastSetAt) > MaxSize

(***************************************************************************)
(* search_transcript (SpecSearch).                                         *)
(***************************************************************************)
\* the indices (from 0) of the segments whose text contains query, case
\* ignored
MatchingIndices(segments, query) ==
    {i \in 0..(Len(segments) - 1) :
        \E a \in 1..Len(segments[i + 1].text), b \in 0..Len(segments[i + 1].text) :
            lower(SubSeq(segments[i + 1].text, a, b)) = lower(query)}

\* the n-th smallest element of a set of numbers
Nth(S, n) == CHOOSE x \in S : Cardinality({y \in S : y < x}) = n - 1

\* C18: the search returns one group per segment whose text contains the
\* query (case ignored), in ascending segment order; the group of the match
\* at index i is the segments with indices in
\* [max(0, i - c), min(n, i + c + 1)), in order, the one at i and no other
\* marked; with no matching segment there is no group.
C18_SearchGroups ==
    (ret.op = "search_transcript" /\ ret.out.kind # "error") =>
        LET segs == ret.segments
            c    == ret.context_segments
            M    == MatchingIndices(segs, ret.query)
        IN  IF M = {} THEN ret.out.kind = "no matches"
            ELSE /\ ret.out.kind = "results"
                 /\ ret.out.count = Cardinality(M)
                 /\ Len(ret.out.groups) = Cardinality(M)
                 /\ \A g \in DOMAIN ret.out.groups :
                       LET i  == Nth(M, g)
                           lo == Max(0, i - c)
                           hi == Min(Len(segs), i + c + 1)
                           group == ret.out.groups[g]
                       IN  /\ Len(group) = hi - lo
                           /\ \A k \in DOMAIN group :
                                 /\ group[k].text = segs[lo + k].text
                                 /\ group[k].ts = format_timestamp(segs[lo + k].start)
                                 /\ group[k].mark = "> " <=> lo + k - 1 = i

\* two matches, the first clipped at the start of the transcript, the
\* second with its full context on both sides
C18_Witness ==
    /\ ret.op = "search_transcript" /\ ret.out.kind = "results"
    /\ ret.context_segments = 1
    /\ Len(ret.segments) = 3
    /\ Len(ret.out.groups) = 2
    /\ Len(ret.out.groups[1]) = 2
    /\ Len(ret.out.groups[2]) = 3
    /\ ret.out.groups[2][2].mark = "> "

(***************************************************************************)
(* get_transcript_summary (SpecSummary).                                   *)
(***************************************************************************)
\* the segment starts in bucket b of width k: b * k <= start < (b + 1) * k
InBucket(seg, b, k) == b * k <= seg.start /\ seg.start < (b + 1) * k

\* C19: with chunk_seconds = k every segment lies in the one bucket b with
\* b * k <= start < (b + 1) * k (a start at a multiple of k in the later
\* bucket); the summary has one part per non-empty bucket, in ascending
\* bucket order, and the text of a part is the texts of its segments in
\* their original order.
C19_ChunkBuckets ==
    ret.op = "get_transcript_summary" =>
        LET segs == ret.segments
            k    == ret.chunk_minutes * 60
            B    == {b \in 0..(MaxChunkMinutes + 1) :
                        \E j \in DOMAIN segs : InBucket(segs[j], b, k)}
        IN  /\ \A j \in DOMAIN segs :
                  Cardinality({b \in B : InBucket(segs[j], b, k)}) = 1
            /\ Len(ret.out) = Cardinality(B)
            /\ \A n \in DOMAIN ret.out :
                  LET b == Nth(B, n)
                      members == SelectSeq(segs, LAMBDA sg : InBucket(sg, b, k))
                  IN  /\ ret.out[n].start_ts = format_timestamp(b * k)
                      /\ ret.out[n].end_ts = format_timestamp((b + 1) * k)
                      /\ ret.out[n].text =
                            join([j \in DOMAIN members |-> members[j].text])

\* segments arriving out of order, the first one starting exactly at the
\* boundary of the second bucket
C19_Witness ==
    /\ ret.op = "get_transcript_summary"
    /\ ret.chunk_minutes = 1
    /\ Len(ret.segments) = 3
    /\ ret.segments[1].start = 60
    /\ ret.segments[2].start = 0
    /\ ret.segments[3].start = 119
    /\ Len(ret.out) = 2
    /\ ret.out[1].text = Word(2)
    /\ ret.out[2].start_ts = <<1, 0>>
    /\ ret.out[2].text = join(<<Word(1), Word(3)>>)

(***************************************************************************)
(* extract_video_id (SpecParse).                                           *)
(***************************************************************************)
\* exactly 11 characters of [a-zA-Z0-9_-]
IsToken(str) == Len(str) = IdLen /\ \A i \in DOMAIN str : str[i] \in IdChars

\* C20: extract_video_id returns None or a token of exactly 11 characters of
\* the alphabet; a string that matches none of the URL patterns is returned
\* as it is when it is such a token and gives None otherwise.
C20_AbsentOrToken ==
    ret.op = "extract_video_id" =>
        /\ ret.out = NoStr \/ IsToken(ret.out)
        /\ first_match(1, ret.url_or_id) = NoStr
           => ret.out = IF IsToken(ret.url_or_id) THEN ret.url_or_id ELSE NoStr

(***************************************************************************)
(* TranscriptCache, further claims (SpecCache).                            *)
(***************************************************************************)
\* C21: get, set and stats never raise, whatever max_size and ttl the cache
\* was made with and whatever calls came before.
C21_CacheNeverFails ==
    /\ ret.op = "set" => ~ret.raised
    /\ ret.op = "get" => ret.result = None \/ ret.result \in CacheDatas
    /\ ret.op = "stats" => ret.size \in 0..MaxSize

(***************************************************************************)
(* search_transcript, the whole tool (SpecSearchTool).                     *)
(***************************************************************************)
BlankQueries == {q \in ToolQueries : \A i \in DOMAIN q : q[i] \in Whitespace}

\* C22: a search_transcript invocation whose query is empty or only
\* whitespace ends at once with an error, and neither looks up or changes
\* the cache nor calls the provider.
C22_BlankQueryRejected ==
    [][\A t \in Tasks, u \in Urls, q \in BlankQueries, l \in Languages,
          c \in 0..MaxContext :
          SearchTranscript(t, u, q, l, c)
          => /\ task'[t] = IdleTask
             /\ ret'.op = "search_transcript" /\ ret'.task = t
             /\ ret'.out.kind \in {"error", "raised"}
             /\ (Admitted /\ VideoIdOf[u] # NoStr)
                => ret'.out = [kind |-> "error", why |-> "empty query"]
             /\ UNCHANGED <<cacheVars, fetches>>]_vars

\* a whitespace-only query for a valid video id, rejected while the other
\* invocation has filled the cache with a transcript
C22_Witness ==
    /\ ret.op = "search_transcript"
    /\ ret.out = [kind |-> "error", why |-> "empty query"]
    /\ calls = 2 /\ getCalls = 1 /\ fetches = 1
    /\ DOMAIN ttl_cache.data # {}


(***************************************************************************)
(* close() of the providers (SpecClose).                                   *)
(***************************************************************************)
\* the client state one close() call leaves a fresh provider of the mode in
ClosedOnce(mode) == close(NewProvider(mode)).provider.client

\* C23: close() of a provider is idempotent and always safe: however many
\* times it is called, before or after any request and also when no request
\* was ever made, no call raises, and the provider is left in the state a
\* single call leaves it in.
C23_CloseIdempotent ==
    /\ ret.op = "close" => ~ret.raised
    /\ _provider.closes >= 1 => _provider.client = ClosedOnce(_provider.mode)

\* a backend provider closed a second time, no request ever made
C23_Witness ==
    /\ ret.op = "close"
    /\ _provider.mode = "backend"
    /\ _provider.closes >= 2
    /\ fetches = 0


(***************************************************************************)
(* The order of the URL shapes (SpecShapes).                               *)
(***************************************************************************)
\* the shapes in the order the claim gives: query parameter, short link,
\* embed, shorts
Shapes == << <<"v", "=">>,
             <<"y", "o", "u", "t", "u", ".", "b", "e", "/">>,
             <<"e", "m", "b", "e", "d", "/">>,
             <<"s", "h", "o", "r", "t", "s", "/">> >>

\* the token that shape k alone extracts from s, NoStr when it does not match
ShapeToken(k, s) == re_search(<<Shapes[k]>>, s)

\* C24: when an input matches more than one of the shapes query parameter,
\* short link, embed, shorts, extract_video_id returns the token extracted
\* by the first of them, in that order, that matches.
C24_ShapePriority ==
    ret.op = "extract_video_id" =>
        LET matching == {k \in DOMAIN Shapes : ShapeToken(k, ret.url_or_id) # NoStr}
        IN  matching # {} =>
                \E k \in matching :
                    /\ \A j \in matching : k <= j
                    /\ ret.out = ShapeToken(k, ret.url_or_id)


(***************************************************************************)
(* Eviction and overwriting in the cache (SpecCache).                      *)
(***************************************************************************)
\* the keys whose entries are live at the time
LiveKeys(c, time) == {k \in DOMAIN c.data : contains(c, k, time)}

\* C25: when the cache holds max_size live entries, a set of a key that is
\* not present evicts exactly one of the entries stored before, and the new
\* key is present afterwards.
C25_EvictsExactlyOne ==
    [][\A p \in CachePairs, d \in CacheDatas :
          (/\ CacheSet(p[1], p[2], d)
           /\ Cardinality(LiveKeys(ttl_cache, mono)) = MaxSize
           /\ _key(p[1], p[2]) \notin LiveKeys(ttl_cache, mono))
          => /\ _key(p[1], p[2]) \in LiveKeys(ttl_cache', mono)
             /\ Cardinality(LiveKeys(ttl_cache, mono) \ LiveKeys(ttl_cache', mono)) = 1
             /\ LiveKeys(ttl_cache', mono) \subseteq
                    LiveKeys(ttl_cache, mono) \cup {_key(p[1], p[2])}]_vars


\* the times at which a lookup after a set made at time `time` is looked at:
\* at once, when the entry replaced would have expired, and just before
\* and at the end of the new TTL
TimesAfter(time, was) ==
    {t \in {time, time + Ttl - 1, time + Ttl} \cup
            (IF was = <<>> THEN {} ELSE {was[2]}) : t >= time}

\* C26: a set on a key that already holds an entry stores the new value and
\* restarts the TTL of the entry at the time of this set: a get returns
\* the new value until TTL seconds after this set, whenever the entry
\* replaced would have expired.
C26_OverwriteRestartsTtl ==
    [][\A p \in CachePairs, d \in CacheDatas :
          (/\ CacheSetTraced(p[1], p[2], d)
           /\ _key(p[1], p[2]) \in DOMAIN ttl_cache.data)
          => /\ ~ret'.raised
             /\ \A t \in TimesAfter(mono, ret'.replaced) :
                    cache_get(ttl_cache', _key(p[1], p[2]), t).result
                        = IF t < mono + Ttl THEN d ELSE None]_vars

\* a set has replaced a live entry that held another value and would have
\* expired earlier than the new entry does
C26_Witness ==
    /\ ret.op = "set" /\ ~ret.raised
    /\ ret.replaced # <<>>
    /\ ret.replaced[1] # ret.data
    /\ mono < ret.replaced[2] /\ ret.replaced[2] < mono + Ttl
    /\ ttl_cache.data[_key(ret.video_id, ret.language)] = ret.data

\* C30: a set on a key that holds a live entry evicts nothing, also when
\* the cache is full: the live keys are the same before and after the call,
\* the other entries keep their values and expiry times, and the key holds
\* the new value with a new expiry time.
C30_OverwriteEvictsNothing ==
    [][\A p \in CachePairs, d \in CacheDatas :
          (/\ CacheSetTraced(p[1], p[2], d)
           /\ _key(p[1], p[2]) \in LiveKeys(ttl_cache, mono))
          => /\ LiveKeys(ttl_cache', mono) = LiveKeys(ttl_cache, mono)
             /\ \A k \in LiveKeys(ttl_cache, mono) \ {_key(p[1], p[2])} :
                    /\ ttl_cache'.data[k] = ttl_cache.data[k]
                    /\ ttl_cache'.expires[k] = ttl_cache.expires[k]
             /\ ttl_cache'.data[_key(p[1], p[2])] = d
             /\ ttl_cache'.expires[_key(p[1], p[2])] = mono + Ttl]_vars

\* a set has replaced a live entry of a full cache that holds another live
\* entry, used less recently than the replaced one
C30_Witness ==
    /\ ret.op = "set" /\ ~ret.raised
    /\ ret.replaced # <<>> /\ mono < ret.replaced[2]
    /\ MaxSize >= 2
    /\ Cardinality(LiveKeys(ttl_cache, mono)) = MaxSize
    /\ Head(ttl_cache.links) # _key(ret.video_id, ret.language)


(***************************************************************************)
(* The rate check of the tools (SpecTools).  Every invocation of a tool,   *)
(* and no other step, counts in calls.                                     *)
(***************************************************************************)
Invocation == calls' = calls + 1

RateLimitError == [kind |-> "raised", why |-> "rate limit"]

\* C27: an invocation of a tool that the rate limiter rejects ends at once
\* with the rate-limit error, whatever the url is, and changes nothing else:
\* the cache, the hit and miss counters, the provider calls made and the
\* invocations in progress stay as they are, and no timestamp is recorded.
C27_RejectedNoEffect ==
    [][(Invocation /\ ~Admitted)
       => /\ ret'.out = RateLimitError
          /\ task' = task
          /\ UNCHANGED <<cacheVars, fetches>>
          /\ _rate_window' = popleft_stale(_rate_window, now)]_vars

\* a rejected invocation, made while the cache holds an entry and another
\* invocation awaits the provider
C27_Witness ==
    /\ "out" \in DOMAIN ret /\ ret.out = RateLimitError
    /\ Limit >= 1
    /\ DOMAIN ttl_cache.data # {}
    /\ \E t \in Tasks : task[t].pc # "idle"

\* C28: an invocation that passes the rate check records exactly one
\* timestamp, whatever comes of it (an invalid url, an empty query, too many
\* urls, a provider error, a result), and the steps that follow it, the
\* items of a batch included, record none.
C28_OneSlotPerInvocation ==
    [][/\ (Invocation /\ Admitted)
          => _rate_window' = Append(popleft_stale(_rate_window, now), now)
       /\ ~Invocation => _rate_window' = _rate_window]_vars

\* a batch of two urls, both fetched, has returned: one timestamp
C28_Witness ==
    /\ ret.op = "batch_transcripts" /\ ret.out.kind = "batch"
    /\ Len(ret.out.urls) = 2 /\ Len(ret.out.fetched) = 2
    /\ calls = 1
    /\ Len(_rate_window) = 1


(***************************************************************************)
(* The rate limiter under a clock that is never set back (SpecSteady).     *)
(***************************************************************************)
\* C29: with rate_limit_per_minute >= 1 and a clock that is never set back,
\* a check made more than 60 seconds after the most recent admitted check
\* is admitted, however many checks were rejected in between.
C29_NoPermanentLockout ==
    [][(/\ RateCheckTraced
        /\ Limit >= 1
        /\ ChecksSoFar.admitted_at >= 0
        /\ now > ChecksSoFar.admitted_at + WindowSeconds)
       => ~ret'.raised]_vars

\* a check admitted more than 60 seconds after the last admitted one, with
\* two checks rejected in between
C29_Witness ==
    /\ ret.op = "_check_rate_limit" /\ ~ret.raised
    /\ Limit >= 1
    /\ ret.before.admitted_at >= 0
    /\ ret.at > ret.before.admitted_at + WindowSeconds
    /\ ret.before.rejected >= 2

=============================================================================
